---- MODULE Spec2Model ----
(***************************************************************************)
(* A model of dork.py: the directive parser parse_dork_file (recursive     *)
(* includes, the shared variable table, the include set, the per-file      *)
(* engine) as a state machine with an explicit call stack.                 *)
(*                                                                         *)
(* A Python str is a sequence of one-character strings, so that the        *)
(* string operations of the code (strip, split, startswith, replace, the   *)
(* regular expressions) are computed character by character.               *)
(***************************************************************************)
EXTENDS Integers, Sequences, FiniteSets, TLC

VARIABLES
    variables,       \* the shared variable table: a dict, in insertion order
    included_files,  \* _included_files: the set of resolved paths
    stack,           \* the active calls of parse_dork_file, innermost last
    status,          \* "idle", "running", "done" (returned), "exit" (sys.exit(1))
    result,          \* the value the top-level call returned
    stderr,          \* the diagnostics printed to sys.stderr, in order
    fs,              \* the lines of each existing file read so far
    closed,          \* the files whose end has been read
    reads,           \* how often each path was read (path.read_text)
    overrides,       \* the table the caller passed (never changes)
    filepath,        \* the path the caller passed (<<>> before the call)
    corpus,          \* the lines a file of this run may hold (never changes)
    fuel,            \* how many more lines the files of this run may hold
    options,         \* the arguments of run() besides filepath and variables
    urls,            \* run()'s list urls
    events,          \* what run() printed, wrote, opened and slept, in order
    run_pc,          \* the place run() has reached ("off": run() is not called)
    build_call       \* a direct call of build_url: its arguments and result

\* the state of run() and of a direct call of build_url
run_vars == <<options, urls, events, run_pc, build_call>>

vars == <<variables, included_files, stack, status, result, stderr, fs,
          closed, reads, overrides, filepath, corpus, fuel, run_vars>>

-----------------------------------------------------------------------------
(* Characters and the str methods the parser uses.                         *)

Letters == {"a","b","c","d","e","f","g","h","i","j","k","l","m","n","o","p",
            "q","r","s","t","u","v","w","x","y","z",
            "A","B","C","D","E","F","G","H","I","J","K","L","M","N","O","P",
            "Q","R","S","T","U","V","W","X","Y","Z"}

Digits == {"0","1","2","3","4","5","6","7","8","9"}

\* \w of the re module, on the characters of the model
WordChars == Letters \cup Digits \cup {"_"}

\* str.isspace of one character; a line out of splitlines() holds no line break
isspace(ch) == ch \in {" ", "\t"}

UpperCase == <<"A","B","C","D","E","F","G","H","I","J","K","L","M","N","O",
               "P","Q","R","S","T","U","V","W","X","Y","Z">>

LowerCase == <<"a","b","c","d","e","f","g","h","i","j","k","l","m","n","o",
               "p","q","r","s","t","u","v","w","x","y","z">>

lower_char(ch) ==
    IF \E i \in 1..Len(UpperCase) : UpperCase[i] = ch
    THEN LowerCase[CHOOSE i \in 1..Len(UpperCase) : UpperCase[i] = ch]
    ELSE ch

\* str.lower
lower(s) == [i \in 1..Len(s) |-> lower_char(s[i])]

\* str.isdigit
isdigit(s) == s # <<>> /\ \A i \in 1..Len(s) : s[i] \in Digits

RECURSIVE lstrip(_)
lstrip(s) == IF s # <<>> /\ isspace(Head(s)) THEN lstrip(Tail(s)) ELSE s

RECURSIVE rstrip(_)
rstrip(s) ==
    IF s # <<>> /\ isspace(s[Len(s)]) THEN rstrip(SubSeq(s, 1, Len(s) - 1)) ELSE s

\* str.strip()
strip(s) == lstrip(rstrip(s))

RECURSIVE lstrip_char(_, _)
lstrip_char(s, c) == IF s # <<>> /\ Head(s) = c THEN lstrip_char(Tail(s), c) ELSE s

RECURSIVE rstrip_char(_, _)
rstrip_char(s, c) ==
    IF s # <<>> /\ s[Len(s)] = c THEN rstrip_char(SubSeq(s, 1, Len(s) - 1), c) ELSE s

\* str.strip(c) for a one-character c
strip_char(s, c) == lstrip_char(rstrip_char(s, c), c)

\* str.startswith
startswith(s, p) == Len(s) >= Len(p) /\ SubSeq(s, 1, Len(p)) = p

\* the text from position i on
From(s, i) == SubSeq(s, i, Len(s))

\* the length of the longest prefix of s whose characters are all in set
RECURSIVE RunLen(_, _)
RunLen(s, set) ==
    IF s # <<>> /\ Head(s) \in set THEN 1 + RunLen(Tail(s), set) ELSE 0

\* the length of the longest prefix of s that holds no whitespace
RECURSIVE WordLen(_)
WordLen(s) == IF s # <<>> /\ ~isspace(Head(s)) THEN 1 + WordLen(Tail(s)) ELSE 0

\* str.split(None, 1): the first word, and the rest of the text after the
\* whitespace that follows it, when there is one
split(s) ==
    LET t == lstrip(s)
        n == WordLen(t)
        rest == lstrip(From(t, n + 1))
    IN  IF t = <<>> THEN <<>>
        ELSE IF rest = <<>> THEN <<SubSeq(t, 1, n)>>
        ELSE <<SubSeq(t, 1, n), rest>>

\* str.replace(old, new), old not empty: left to right, without overlaps
RECURSIVE replace(_, _, _)
replace(s, old, new) ==
    IF s = <<>> THEN <<>>
    ELSE IF startswith(s, old) THEN new \o replace(From(s, Len(old) + 1), old, new)
    ELSE <<Head(s)>> \o replace(Tail(s), old, new)

-----------------------------------------------------------------------------
(* The engine registry (a part of it: the default engine, two ordinary     *)
(* engines and the three engines build_url encodes in its own way).        *)

EngineTable == <<
    <<<<"g","o","o","g","l","e">>,
      <<"h","t","t","p","s",":","/","/","w","w","w",".","g","o","o","g","l","e",".","c","o","m","/","s","e","a","r","c","h","?","q","=">>>>,
    <<<<"b","i","n","g">>,
      <<"h","t","t","p","s",":","/","/","w","w","w",".","b","i","n","g",".","c","o","m","/","s","e","a","r","c","h","?","q","=">>>>,
    <<<<"g","i","t","h","u","b">>,
      <<"h","t","t","p","s",":","/","/","g","i","t","h","u","b",".","c","o","m","/","s","e","a","r","c","h","?","q","=">>>>,
    <<<<"a","r","c","h","i","v","e">>,
      <<"h","t","t","p","s",":","/","/","w","e","b",".","a","r","c","h","i","v","e",".","o","r","g","/","w","e","b","/","*","/">>>>,
    <<<<"f","o","f","a">>,
      <<"h","t","t","p","s",":","/","/","e","n",".","f","o","f","a",".","i","n","f","o","/","r","e","s","u","l","t","?","q","b","a","s","e","6","4","=">>>>,
    <<<<"h","u","n","t","e","r">>,
      <<"h","t","t","p","s",":","/","/","h","u","n","t","e","r",".","i","o","/","s","e","a","r","c","h","/">>>> >>

\* ENGINES: engine id -> base URL
ENGINES ==
    [k \in {EngineTable[i][1] : i \in 1..Len(EngineTable)} |->
        EngineTable[CHOOSE i \in 1..Len(EngineTable) : EngineTable[i][1] = k][2]]

google == <<"g","o","o","g","l","e">>

-----------------------------------------------------------------------------
(* build_url: urllib.parse.quote and base64.b64encode over the bytes of    *)
(* the UTF-8 encoding of the query.                                        *)

\* the code points of the characters a URL of the model may hold
CodePoints == <<
    <<"a", 97>>, <<"Z", 90>>, <<"_", 95>>, <<".", 46>>, <<"-", 45>>,
    <<"~", 126>>, <<" ", 32>>, <<"/", 47>>, <<":", 58>>, <<"%", 37>>, <<"+", 43>>,
    <<"\"", 34>>, <<"é", 233>>, <<"€", 8364>>,
    <<"0", 48>>, <<"1", 49>>, <<"2", 50>>, <<"3", 51>>, <<"4", 52>>, <<"5", 53>>,
    <<"6", 54>>, <<"7", 55>>, <<"8", 56>>, <<"9", 57>>, <<"A", 65>>, <<"B", 66>>,
    <<"C", 67>>, <<"D", 68>>, <<"E", 69>>, <<"F", 70>> >>

\* ord(ch)
ord(ch) == CodePoints[CHOOSE i \in 1..Len(CodePoints) : CodePoints[i][1] = ch][2]

\* ch.encode("utf-8"): the bytes of one character
encode_char(ch) ==
    LET cp == ord(ch)
    IN  IF cp < 128 THEN <<cp>>
        ELSE IF cp < 2048 THEN <<192 + (cp \div 64), 128 + (cp % 64)>>
        ELSE <<224 + (cp \div 4096), 128 + ((cp \div 64) % 64), 128 + (cp % 64)>>

\* query.encode("utf-8")
RECURSIVE encode(_)
encode(s) == IF s = <<>> THEN <<>> ELSE encode_char(Head(s)) \o encode(Tail(s))

HexDigits == <<"0","1","2","3","4","5","6","7","8","9","A","B","C","D","E","F">>

\* "%XX" for one byte
percent(b) == <<"%", HexDigits[(b \div 16) + 1], HexDigits[(b % 16) + 1]>>

\* the characters quote never escapes: letters, digits and "_.-~"
AlwaysSafe == Letters \cup Digits \cup {"_", ".", "-", "~"}

RECURSIVE percent_all(_)
percent_all(bytes) ==
    IF bytes = <<>> THEN <<>> ELSE percent(Head(bytes)) \o percent_all(Tail(bytes))

\* quote that writes a blank as "+" (quote_plus)
RECURSIVE quote_plus(_, _)
quote_plus(s, safe) ==
    IF s = <<>> THEN <<>>
    ELSE (IF Head(s) = " " THEN <<"+">>
          ELSE IF Head(s) \in AlwaysSafe \cup safe THEN <<Head(s)>>
          ELSE percent_all(encode_char(Head(s))))
         \o quote_plus(Tail(s), safe)

\* urllib.parse.quote(s, safe): every byte of a character outside the safe
\* set becomes %XX
RECURSIVE quote(_, _)
quote(s, safe) ==
    IF s = <<>> THEN <<>>
    ELSE (IF Head(s) \in AlwaysSafe \cup safe THEN <<Head(s)>>
          ELSE percent_all(encode_char(Head(s))))
         \o quote(Tail(s), safe)

B64Alphabet == <<
    "A","B","C","D","E","F","G","H","I","J","K","L","M","N","O","P","Q","R","S",
    "T","U","V","W","X","Y","Z","a","b","c","d","e","f","g","h","i","j","k","l",
    "m","n","o","p","q","r","s","t","u","v","w","x","y","z","0","1","2","3","4",
    "5","6","7","8","9","+","/">>

\* base64.b64encode(bytes).decode("ascii"): three bytes to four characters,
\* the last group padded with "="
RECURSIVE b64encode(_)
b64encode(b) ==
    IF b = <<>> THEN <<>>
    ELSE IF Len(b) = 1
    THEN <<B64Alphabet[(b[1] \div 4) + 1], B64Alphabet[((b[1] % 4) * 16) + 1], "=", "=">>
    ELSE IF Len(b) = 2
    THEN <<B64Alphabet[(b[1] \div 4) + 1],
           B64Alphabet[((b[1] % 4) * 16) + (b[2] \div 16) + 1],
           B64Alphabet[((b[2] % 16) * 4) + 1], "=">>
    ELSE <<B64Alphabet[(b[1] \div 4) + 1],
           B64Alphabet[((b[1] % 4) * 16) + (b[2] \div 16) + 1],
           B64Alphabet[((b[2] % 16) * 4) + (b[3] \div 64) + 1],
           B64Alphabet[(b[3] % 64) + 1]>>
         \o b64encode(SubSeq(b, 4, Len(b)))

archive == <<"a","r","c","h","i","v","e">>
fofa == <<"f","o","f","a">>
hunter == <<"h","u","n","t","e","r">>

\* build_url without the branch for hunter: its query goes the default way
build_url_no_hunter(query, engine) ==
    LET base == IF engine \in DOMAIN ENGINES THEN ENGINES[engine] ELSE ENGINES[google]
    IN  IF engine = archive THEN base \o query
        ELSE IF engine = fofa THEN base \o b64encode(encode(query))
        ELSE base \o quote(query, {"/"})

\* build_url(query, engine)
build_url(query, engine) ==
    LET base == IF engine \in DOMAIN ENGINES THEN ENGINES[engine] ELSE ENGINES[google]
    IN  IF engine = archive THEN base \o query
        ELSE IF engine = fofa THEN base \o b64encode(encode(query))
        ELSE IF engine \in {hunter} THEN base \o quote(query, {})
        ELSE base \o quote(query, {"/"})

-----------------------------------------------------------------------------
(* pathlib, for files that all lie in directories below the root.  A path  *)
(* is its components; Path() drops empty and "." components, resolve()     *)
(* makes the path absolute and removes the ".." components.                *)

\* the length of the text up to its first "/"
RECURSIVE PartLen(_)
PartLen(text) == IF text # <<>> /\ Head(text) # "/" THEN 1 + PartLen(Tail(text)) ELSE 0

RECURSIVE PathParts(_)
PathParts(text) ==
    IF text = <<>> THEN <<>>
    ELSE IF Head(text) = "/" THEN PathParts(Tail(text))
    ELSE LET n == PartLen(text)
             part == SubSeq(text, 1, n)
             rest == PathParts(From(text, n + 1))
         IN  IF part = <<".">> THEN rest ELSE <<part>> \o rest

\* Path(text)
Path(text) == [abs |-> text # <<>> /\ Head(text) = "/", parts |-> PathParts(text)]

\* Path.is_absolute
is_absolute(p) == p.abs

\* base_dir / include_path, for a relative include_path
joinpath(dir, p) == [abs |-> dir.abs, parts |-> dir.parts \o p.parts]

\* Path.parent
parent(p) ==
    [abs |-> p.abs,
     parts |-> IF p.parts = <<>> THEN <<>> ELSE SubSeq(p.parts, 1, Len(p.parts) - 1)]

\* Path.name
name(p) == IF p.parts = <<>> THEN <<>> ELSE p.parts[Len(p.parts)]

\* the process working directory: the root
Cwd == [abs |-> TRUE, parts |-> <<>>]

RECURSIVE DropDotDot(_, _)
DropDotDot(done, todo) ==
    IF todo = <<>> THEN done
    ELSE IF Head(todo) = <<".", ".">>
         THEN DropDotDot(IF done = <<>> THEN <<>> ELSE SubSeq(done, 1, Len(done) - 1),
                         Tail(todo))
         ELSE DropDotDot(Append(done, Head(todo)), Tail(todo))

\* Path.resolve (no symbolic links)
resolve(p) ==
    [abs |-> TRUE,
     parts |-> DropDotDot(<<>>, IF p.abs THEN p.parts ELSE Cwd.parts \o p.parts)]

\* the files that exist, by resolved path: /a, /b and /c
ExistingFiles == {[abs |-> TRUE, parts |-> <<<<f>>>>] : f \in {"a", "b", "c"}}

\* Path.exists
exists(p) == p \in ExistingFiles

-----------------------------------------------------------------------------
(* The pieces of parse_dork_file's loop body.                              *)

RECURSIVE scan_comment(_, _, _, _)
scan_comment(text, i, in_single, in_double) ==
    IF i > Len(text) THEN text
    ELSE IF text[i] = "'" /\ ~in_double
         THEN scan_comment(text, i + 1, ~in_single, in_double)
    ELSE IF text[i] = "\"" /\ ~in_single
         THEN scan_comment(text, i + 1, in_single, ~in_double)
    ELSE IF text[i] = "#" /\ ~in_single /\ ~in_double
            /\ (i = 1 \/ isspace(text[i - 1]))
         THEN rstrip(SubSeq(text, 1, i - 1))
    ELSE scan_comment(text, i + 1, in_single, in_double)

\* scan_comment without the look at the character before the #
RECURSIVE scan_any_hash(_, _, _, _)
scan_any_hash(text, i, in_single, in_double) ==
    IF i > Len(text) THEN text
    ELSE IF text[i] = "'" /\ ~in_double
         THEN scan_any_hash(text, i + 1, ~in_single, in_double)
    ELSE IF text[i] = "\"" /\ ~in_single
         THEN scan_any_hash(text, i + 1, in_single, ~in_double)
    ELSE IF text[i] = "#" /\ ~in_single /\ ~in_double
         THEN rstrip(SubSeq(text, 1, i - 1))
    ELSE scan_any_hash(text, i + 1, in_single, in_double)

\* strip_inline_comment that cuts at every # outside quotes
strip_at_any_hash(text) == scan_any_hash(text, 1, FALSE, FALSE)

\* strip_inline_comment that does not follow the quotes: it cuts at the
\* first # that starts the text or follows whitespace
strip_ignoring_quotes(text) ==
    LET hits == {i \in 1..Len(text) :
                    text[i] = "#" /\ (i = 1 \/ isspace(text[i - 1]))}
    IN  IF hits = {} THEN text
        ELSE rstrip(SubSeq(text, 1, (CHOOSE i \in hits : \A j \in hits : i <= j) - 1))

\* strip_inline_comment: cut at the first # outside quotes that follows
\* whitespace or starts the text
strip_inline_comment(text) == scan_comment(text, 1, FALSE, FALSE)

KwEngine == <<"@","e","n","g","i","n","e">>
KwVar == <<"@","v","a","r">>
KwInclude == <<"@","i","n","c","l","u","d","e">>

\* line.rstrip(); line.strip()
Stripped(raw) == strip(rstrip(raw))

\* the line after strip_inline_comment (original_line)
Cleaned(raw) == strip_inline_comment(Stripped(raw))

\* which branch of the loop body takes the line: the chain of "if ...:
\* continue" of lines 375-421, and the query as what is left
LineKind(raw) ==
    LET line == Stripped(raw)
        cleaned == strip_inline_comment(line)
    IN  IF line = <<>> \/ startswith(line, <<"#">>) THEN "skip"
        ELSE IF cleaned = <<>> THEN "skip"
        ELSE IF startswith(cleaned, KwEngine) THEN "engine"
        ELSE IF startswith(cleaned, KwVar) THEN "var"
        ELSE IF startswith(cleaned, KwInclude) THEN "include"
        ELSE "query"

\* the lines the loop skips before it looks for a directive
IsSkipped(raw) == LineKind(raw) = "skip"

IsEngineLine(raw) == LineKind(raw) = "engine"

IsVarLine(raw) == LineKind(raw) = "var"

IsIncludeLine(raw) == LineKind(raw) = "include"

IsQueryLine(raw) == LineKind(raw) = "query"

\* EngineAfter that takes the name without looking it up
EngineAfterAny(current_engine, line) ==
    LET parts == split(line)
    IN  IF Len(parts) > 1 THEN lower(parts[2]) ELSE current_engine

\* the engine after an @engine line: the lower-cased argument when it is in
\* the registry, the engine as it was when it is not or there is none
EngineAfter(current_engine, line) ==
    LET parts == split(line)
    IN  IF Len(parts) > 1 /\ lower(parts[2]) \in DOMAIN ENGINES
        THEN lower(parts[2])
        ELSE current_engine

\* whether the @engine line prints the "Unknown engine" warning
EngineUnknown(line) ==
    LET parts == split(line)
    IN  Len(parts) > 1 /\ lower(parts[2]) \notin DOMAIN ENGINES

\* re.match(r"@var\s+(\w+)\s*=\s*(.+)", line): <<>> when there is no match,
\* else <<group(1), group(2).strip()>>
VarMatch(line) ==
    LET a == From(line, Len(KwVar) + 1)
        ws == Len(a) - Len(lstrip(a))
        b == lstrip(a)
        n == RunLen(b, WordChars)
        c == lstrip(From(b, n + 1))
        rest == IF c = <<>> THEN <<>> ELSE Tail(c)
    IN  IF startswith(line, KwVar) /\ ws > 0 /\ n > 0
           /\ c # <<>> /\ Head(c) = "=" /\ rest # <<>>
        THEN <<SubSeq(b, 1, n), strip(rest)>>
        ELSE <<>>

\* "name in variables"
Bound(table, n) == \E i \in 1..Len(table) : table[i].name = n

\* variables[name]
Lookup(table, n) == table[CHOOSE i \in 1..Len(table) : table[i].name = n].value

\* DefineVar without the test: the last definition wins
DefineVarLast(table, n, v) ==
    IF Bound(table, n)
    THEN [i \in 1..Len(table) |->
             IF table[i].name = n THEN [name |-> n, value |-> v] ELSE table[i]]
    ELSE Append(table, [name |-> n, value |-> v])

\* "if var_name not in variables: variables[var_name] = value"
DefineVar(table, n, v) ==
    IF Bound(table, n) THEN table ELSE Append(table, [name |-> n, value |-> v])

\* the table after an @var line
VarsAfter(table, line) ==
    LET m == VarMatch(line)
    IN  IF m = <<>> THEN table ELSE DefineVar(table, m[1], m[2])

\* "for name, value in variables.items(): query = query.replace(...)"
RECURSIVE substitute(_, _)
substitute(query, table) ==
    IF table = <<>> THEN query
    ELSE LET v == Head(table)
             braced == replace(query, <<"$", "{">> \o v.name \o <<"}">>, v.value)
             bare == replace(braced, <<"$">> \o v.name, v.value)
         IN  substitute(bare, Tail(table))

\* re.findall(r"\$\{?(\w+)\}?", query)
RECURSIVE findall_vars(_)
findall_vars(s) ==
    IF s = <<>> THEN <<>>
    ELSE IF Head(s) = "$"
    THEN LET t == Tail(s)
             brace == IF t # <<>> /\ Head(t) = "{" THEN 1 ELSE 0
             u == From(t, brace + 1)
             n == RunLen(u, WordChars)
             w == From(u, n + 1)
             close == IF w # <<>> /\ Head(w) = "}" THEN 1 ELSE 0
         IN  IF n > 0
             THEN <<SubSeq(u, 1, n)>> \o findall_vars(From(w, close + 1))
             ELSE findall_vars(t)
    ELSE findall_vars(Tail(s))

\* real_unexpanded: the names that are not all digits
RECURSIVE real_unexpanded(_)
real_unexpanded(names) ==
    IF names = <<>> THEN <<>>
    ELSE IF isdigit(Head(names)) THEN real_unexpanded(Tail(names))
    ELSE <<Head(names)>> \o real_unexpanded(Tail(names))

\* the path an @include line names (a Path, not resolved), given the
\* including file's directory; <<>> when the line has no argument
IncludeArg(base_dir, line) ==
    LET parts == split(line)
        include_path == strip_char(strip_char(strip(parts[2]), "\""), "'")
    IN  IF Len(parts) > 1
        THEN <<IF is_absolute(Path(include_path)) THEN Path(include_path)
               ELSE joinpath(base_dir, Path(include_path))>>
        ELSE <<>>

-----------------------------------------------------------------------------
(* The state machine.  A call of parse_dork_file is a frame of the stack;  *)
(* a frame is at "entry" (lines 342-354 not yet run) or in the "loop".     *)
(* The content of a file is not known before the parser reads it: a line   *)
(* is drawn from the corpus when the loop first reaches it and is then     *)
(* kept in fs, so that a file read again shows the same lines.             *)

\* lines 334-342: the locals of a call before the include-set is looked at
NewFrame(target) ==
    [path |-> resolve(target), pc |-> "entry", line_num |-> 0,
     current_engine |-> google, queries |-> <<>>]

\* AlreadyIncluded that never finds the path
NeverIncluded(path, included) == FALSE

\* "if path in _included_files"
AlreadyIncluded(path, included) == path \in included

\* IncludeSetAfter that forgets the path
IncludeSetSame(path, included) == included

\* "_included_files.add(path)"
IncludeSetAfter(path, included) == included \cup {path}

\* Emit that drops the record of a query with undefined variables
EmitUnlessUndefined(queries, record, undefined) ==
    IF undefined # <<>> THEN queries ELSE Append(queries, record)

\* "queries.append({...})": the record is appended whether or not the query
\* still holds undefined variables
Emit(queries, record, undefined) == Append(queries, record)

\* ReturnTo with the included records put before the caller's own
ReturnToPrepend(caller, included_queries) ==
    [caller EXCEPT !.queries = included_queries \o @]

\* ReturnTo that puts the caller's engine back to the default
ReturnToReset(caller, included_queries) ==
    [caller EXCEPT !.queries = @ \o included_queries, !.current_engine = google]

\* "queries.extend(included_queries)" in the caller, whose locals are
\* otherwise as they were at the call
ReturnTo(caller, included_queries) ==
    [caller EXCEPT !.queries = @ \o included_queries]

\* QueryRecord that keeps the substituted text as the original
QueryRecordSubstituted(query, engine, line_num, path, original_line) ==
    [query |-> query, engine |-> engine, line |-> line_num,
     file |-> name(path), original |-> query]

\* the record a query line appends
QueryRecord(query, engine, line_num, path, original_line) ==
    [query |-> query, engine |-> engine, line |-> line_num,
     file |-> name(path), original |-> strip(original_line)]

Top == stack[Len(stack)]

Running == status = "running" /\ stack # <<>>

InLoop == Running /\ Top.pc = "loop"

\* the lines the file may hold at the place the loop has reached
NextLines ==
    IF Top.line_num < Len(fs[Top.path]) THEN {fs[Top.path][Top.line_num + 1]}
    ELSE IF Top.path \notin closed /\ fuel > 0 THEN corpus
    ELSE {}

\* the loop takes raw as the next line of the file
Read(raw) ==
    IF Top.line_num < Len(fs[Top.path])
    THEN UNCHANGED <<fs, fuel>>
    ELSE /\ fs' = [fs EXCEPT ![Top.path] = Append(@, raw)]
         /\ fuel' = fuel - 1

\* the innermost call returns queries
Return(queries) ==
    IF Len(stack) = 1
    THEN /\ stack' = <<>>
         /\ result' = queries
         /\ status' = "done"
    ELSE /\ stack' = [i \in 1..(Len(stack) - 1) |->
                        IF i = Len(stack) - 1
                        THEN ReturnTo(stack[i], queries) ELSE stack[i]]
         /\ UNCHANGED <<result, status>>

\* run() calls parse_dork_file(filepath, variables)
Call ==
    /\ status = "idle"
    /\ \E arg \in {<<"a">>, <<"z">>} :
          /\ filepath' = arg
          /\ stack' = <<NewFrame(Path(arg))>>
    /\ status' = "running"
    /\ UNCHANGED <<variables, included_files, result, stderr, fs, closed,
                   reads, overrides, corpus, fuel>>
    /\ UNCHANGED run_vars

\* lines 344-354: the include-set, the existence check, read_text
Enter ==
    /\ Running /\ Top.pc = "entry"
    /\ IF AlreadyIncluded(Top.path, included_files)
       THEN /\ Return(Top.queries)
            /\ UNCHANGED <<included_files, stderr, reads>>
       ELSE /\ included_files' = IncludeSetAfter(Top.path, included_files)
            /\ IF ~exists(Top.path)
               THEN /\ stderr' = Append(stderr, [kind |-> "not_found",
                                                 file |-> name(Top.path)])
                    /\ status' = "exit"
                    /\ UNCHANGED <<stack, result, reads>>
               ELSE /\ reads' = [reads EXCEPT ![Top.path] = @ + 1]
                    /\ stack' = [stack EXCEPT ![Len(stack)].pc = "loop"]
                    /\ UNCHANGED <<stderr, result, status>>
    /\ UNCHANGED <<variables, fs, closed, overrides, filepath, corpus, fuel>>
    /\ UNCHANGED run_vars

\* lines 371-381: a blank line, a comment line, a line empty without its comment
SkipLine ==
    /\ InLoop
    /\ \E raw \in NextLines :
          /\ IsSkipped(raw)
          /\ Read(raw)
          /\ stack' = [stack EXCEPT ![Len(stack)].line_num = @ + 1]
    /\ UNCHANGED <<variables, included_files, status, result, stderr, closed,
                   reads, overrides, filepath, corpus>>
    /\ UNCHANGED run_vars

\* lines 385-396: @engine
EngineDirective ==
    /\ InLoop
    /\ \E raw \in NextLines :
          /\ IsEngineLine(raw)
          /\ Read(raw)
          /\ stack' = [stack EXCEPT
                ![Len(stack)].line_num = @ + 1,
                ![Len(stack)].current_engine = EngineAfter(@, Cleaned(raw))]
          /\ stderr' = IF EngineUnknown(Cleaned(raw))
                       THEN Append(stderr,
                               [kind |-> "unknown_engine", file |-> name(Top.path),
                                line |-> Top.line_num + 1,
                                eng |-> lower(split(Cleaned(raw))[2])])
                       ELSE stderr
    /\ UNCHANGED <<variables, included_files, status, result, closed, reads,
                   overrides, filepath, corpus>>
    /\ UNCHANGED run_vars

\* lines 399-406: @var
VarDirective ==
    /\ InLoop
    /\ \E raw \in NextLines :
          /\ IsVarLine(raw)
          /\ Read(raw)
          /\ variables' = VarsAfter(variables, Cleaned(raw))
          /\ stack' = [stack EXCEPT ![Len(stack)].line_num = @ + 1]
    /\ UNCHANGED <<included_files, status, result, stderr, closed, reads,
                   overrides, filepath, corpus>>
    /\ UNCHANGED run_vars

\* lines 409-421: @include, up to the recursive call
IncludeDirective ==
    /\ InLoop
    /\ \E raw \in NextLines :
          /\ IsIncludeLine(raw)
          /\ Read(raw)
          /\ LET arg == IncludeArg(parent(Top.path), Cleaned(raw))
                 here == [stack EXCEPT ![Len(stack)].line_num = @ + 1]
             IN  stack' = IF arg = <<>> THEN here
                          ELSE Append(here, NewFrame(arg[1]))
    /\ UNCHANGED <<variables, included_files, status, result, stderr, closed,
                   reads, overrides, filepath, corpus>>
    /\ UNCHANGED run_vars

\* lines 424-448: a query line
QueryLine ==
    /\ InLoop
    /\ \E raw \in NextLines :
          /\ IsQueryLine(raw)
          /\ Read(raw)
          /\ LET query == substitute(Cleaned(raw), variables)
                 undefined == real_unexpanded(findall_vars(query))
             IN  /\ stderr' = IF undefined # <<>>
                              THEN Append(stderr,
                                      [kind |-> "undefined", file |-> name(Top.path),
                                       line |-> Top.line_num + 1,
                                       names |-> undefined])
                              ELSE stderr
                 /\ stack' = [stack EXCEPT
                       ![Len(stack)].line_num = @ + 1,
                       ![Len(stack)].queries =
                           Emit(@, QueryRecord(query, Top.current_engine,
                                               Top.line_num + 1, Top.path,
                                               Cleaned(raw)),
                                undefined)]
    /\ UNCHANGED <<variables, included_files, status, result, closed, reads,
                   overrides, filepath, corpus>>
    /\ UNCHANGED run_vars

\* line 450: the loop is over, "return queries"
EndOfFile ==
    /\ InLoop
    /\ Top.line_num >= Len(fs[Top.path])
    /\ closed' = closed \cup {Top.path}
    /\ Return(Top.queries)
    /\ UNCHANGED <<variables, included_files, stderr, fs, reads, overrides,
                   filepath, corpus, fuel>>
    /\ UNCHANGED run_vars

Next ==
    \/ Call
    \/ Enter
    \/ SkipLine
    \/ EngineDirective
    \/ VarDirective
    \/ IncludeDirective
    \/ QueryLine
    \/ EndOfFile

-----------------------------------------------------------------------------
(* build_url called on its own, as selftest does (lines 845 and 852).      *)

\* the variables of the parser
parse_vars == <<variables, included_files, stack, status, result, stderr, fs,
                closed, reads, overrides, filepath, corpus, fuel>>

\* url = build_url(query, engine)
BuildUrl ==
    /\ ~build_call.returned
    /\ build_call' = [build_call EXCEPT
          !.url = build_url(build_call.query, build_call.engine),
          !.returned = TRUE]
    /\ UNCHANGED <<parse_vars, options, urls, events, run_pc>>

NextBuild == BuildUrl

-----------------------------------------------------------------------------
(* run(): after parse_dork_file has returned (line 484) it collects the    *)
(* URLs and prints, writes or opens them.  A call that ended in            *)
(* sys.exit(1) never comes back to run().                                  *)

\* "if limit: queries = queries[:limit]" (lines 491-492): None and 0 are
\* false; a negative limit cuts from the end
apply_limit(queries, limit) ==
    IF limit # <<>> /\ limit[1] # 0
    THEN IF limit[1] > 0
         THEN SubSeq(queries, 1, IF limit[1] < Len(queries) THEN limit[1] ELSE Len(queries))
         ELSE SubSeq(queries, 1, IF Len(queries) + limit[1] > 0
                                 THEN Len(queries) + limit[1] ELSE 0)
    ELSE queries

\* lines 496-498: {**q, "engine": eng, "url": build_url(q["query"], eng)}
collect(queries, engine_override) ==
    [i \in 1..Len(queries) |->
        LET eng == IF engine_override # <<>> THEN engine_override
                   ELSE queries[i].engine
        IN  [query |-> queries[i].query, engine |-> eng, line |-> queries[i].line,
             file |-> queries[i].file, original |-> queries[i].original,
             url |-> build_url(queries[i].query, eng)]]

\* line 534: the query as it is shown
display_query(q) ==
    IF Len(q) < 55 THEN q ELSE SubSeq(q, 1, 52) \o <<".", ".", ".">>

\* the run has reached the place at
RunAt(at) == status = "done" /\ run_pc.at = at

\* the browser steps of one turn of a loop that opens without looking at
\* preview
open_always(url, last, preview, delay) ==
    <<[kind |-> "open", url |-> url]>> \o
    (IF ~last THEN <<[kind |-> "sleep", delay |-> delay]>> ELSE <<>>)

\* "if not preview: webbrowser.open(url); if <not the last>: time.sleep(delay)"
\* (lines 513-518 and 544-547)
open_one(url, last, preview, delay) ==
    IF preview THEN <<>>
    ELSE <<[kind |-> "open", url |-> url]>> \o
         (IF ~last THEN <<[kind |-> "sleep", delay |-> delay]>> ELSE <<>>)

\* lines 486-489: nothing to run
NoQueries ==
    /\ RunAt("parsed")
    /\ result = <<>>
    /\ events' = IF ~options.urls_only
                 THEN Append(events, [kind |-> "stderr", text |-> "No queries found in file."])
                 ELSE events
    /\ run_pc' = [at |-> "return", i |-> 0]
    /\ UNCHANGED <<parse_vars, options, urls, build_call>>

\* lines 491-498: the limit and the list of URLs
Collect ==
    /\ RunAt("parsed")
    /\ result # <<>>
    /\ urls' = collect(apply_limit(result, options.limit), options.engine_override)
    /\ run_pc' = [at |-> "collected", i |-> 0]
    /\ UNCHANGED <<parse_vars, options, events, build_call>>

\* lines 501-504: urls-only mode
PrintUrls ==
    /\ RunAt("collected")
    /\ options.urls_only
    /\ events' = events \o [i \in 1..Len(urls) |-> [kind |-> "print", url |-> urls[i].url]]
    /\ run_pc' = [at |-> "return", i |-> 0]
    /\ UNCHANGED <<parse_vars, options, urls, build_call>>

\* lines 507-513: the output file
WriteFile ==
    /\ RunAt("collected")
    /\ ~options.urls_only
    /\ options.output_file # <<>>
    /\ events' = (events \o [i \in 1..Len(urls) |->
                                [kind |-> "write", file |-> options.output_file,
                                 url |-> urls[i].url]])
                 \o <<[kind |-> "wrote", count |-> Len(urls)]>>
    /\ run_pc' = IF ~options.preview THEN [at |-> "written", i |-> 0]
                 ELSE [at |-> "return", i |-> 0]
    /\ UNCHANGED <<parse_vars, options, urls, build_call>>

\* lines 515-518: one turn of the loop that opens the URLs written
OpenWritten ==
    /\ RunAt("written")
    /\ run_pc.i < Len(urls)
    /\ events' = events \o open_one(urls[run_pc.i + 1].url,
                                    ~(run_pc.i < Len(urls) - 1),
                                    FALSE, options.delay)
    /\ run_pc' = [run_pc EXCEPT !.i = @ + 1]
    /\ UNCHANGED <<parse_vars, options, urls, build_call>>

\* lines 519-520: the loop is over
WrittenDone ==
    /\ RunAt("written")
    /\ run_pc.i >= Len(urls)
    /\ events' = Append(events, [kind |-> "opened", count |-> Len(urls)])
    /\ run_pc' = [at |-> "return", i |-> 0]
    /\ UNCHANGED <<parse_vars, options, urls, build_call>>

\* lines 523-530: the header of the normal mode
Header ==
    /\ RunAt("collected")
    /\ ~options.urls_only
    /\ options.output_file = <<>>
    /\ events' = (events \o <<[kind |-> "header", file |-> name(Path(filepath))]>>
                  \o (IF overrides # <<>>
                      THEN <<[kind |-> "variables", table |-> variables]>> ELSE <<>>))
                 \o <<[kind |-> "queries", count |-> Len(urls)]>>
    /\ run_pc' = [at |-> "display", i |-> 1]
    /\ UNCHANGED <<parse_vars, options, urls, build_call>>

\* lines 532-547: one turn of the loop that shows and opens
Display ==
    /\ RunAt("display")
    /\ run_pc.i <= Len(urls)
    /\ events' = ((events
                   \o <<[kind |-> "show", i |-> run_pc.i,
                         query |-> display_query(urls[run_pc.i].query),
                         engine |-> urls[run_pc.i].engine]>>)
                  \o (IF options.preview
                      THEN <<[kind |-> "show_url", url |-> urls[run_pc.i].url]>>
                      ELSE <<>>))
                 \o open_one(urls[run_pc.i].url, ~(run_pc.i < Len(urls)),
                             options.preview, options.delay)
    /\ run_pc' = [run_pc EXCEPT !.i = @ + 1]
    /\ UNCHANGED <<parse_vars, options, urls, build_call>>

\* lines 549-553: the loop is over
DisplayDone ==
    /\ RunAt("display")
    /\ run_pc.i > Len(urls)
    /\ events' = Append(events, IF options.preview
                                THEN [kind |-> "preview_note"]
                                ELSE [kind |-> "opened", count |-> Len(urls)])
    /\ run_pc' = [at |-> "return", i |-> 0]
    /\ UNCHANGED <<parse_vars, options, urls, build_call>>

\* run(): the parser's steps, then run()'s own
NextRun ==
    \/ Call
    \/ Enter
    \/ SkipLine
    \/ EngineDirective
    \/ VarDirective
    \/ IncludeDirective
    \/ QueryLine
    \/ EndOfFile
    \/ NoQueries
    \/ Collect
    \/ PrintUrls
    \/ WriteFile
    \/ OpenWritten
    \/ WrittenDone
    \/ Header
    \/ Display
    \/ DisplayDone

-----------------------------------------------------------------------------
(* The runs that are checked.                                              *)

\* the most lines the files of one run hold together
MaxLines == 4

\* the parser's state before the call, for a table of overrides and a corpus
\* of lines
StartParse(table, lines, n) ==
    /\ variables = table
    /\ overrides = table
    /\ filepath = <<>>
    /\ included_files = {}
    /\ stack = <<>>
    /\ status = "idle"
    /\ result = <<>>
    /\ stderr = <<>>
    /\ fs = [p \in ExistingFiles |-> <<>>]
    /\ closed = {}
    /\ reads = [p \in ExistingFiles |-> 0]
    /\ corpus = lines
    /\ fuel = n

\* run()'s defaults (lines 475-480)
\* limit is <<>> for None and <<n>> for the integer n; engine_override and
\* output_file are <<>> for None
DefaultOptions ==
    [limit |-> <<>>, preview |-> FALSE, engine_override |-> <<>>,
     delay |-> "0.5", output_file |-> <<>>, urls_only |-> FALSE]

NoCall == [query |-> <<>>, engine |-> <<>>, url |-> <<>>, returned |-> FALSE]

\* parse_dork_file called on its own (as selftest does): run() is not running
NoRun ==
    /\ options = DefaultOptions
    /\ urls = <<>>
    /\ events = <<>>
    /\ run_pc = [at |-> "off", i |-> 0]
    /\ build_call = NoCall

\* the state before parse_dork_file is called on its own, for a table of
\* overrides and a corpus of lines
Start(table, lines, n) == StartParse(table, lines, n) /\ NoRun

\* files that include each other, with one line of each recoverable kind
IncludeCorpus == {
    <<"q">>,
    <<"$","U">>,
    <<"@","i","n","c","l","u","d","e"," ","b">>,
    <<"@","i","n","c","l","u","d","e"," ",".","/","a">>,
    <<"@","i","n","c","l","u","d","e"," ","\"","c","\"">>,
    <<"@","i","n","c","l","u","d","e"," ","z">>,
    <<"@","e","n","g","i","n","e"," ","f","o","o">>,
    <<"@","v","a","r"," ","T">>,
    <<"#"," ","c">> }

Init == Start(<<>>, IncludeCorpus, MaxLines)

Spec == Init /\ [][Next]_vars

\* files that include each other in cycles, with one line of each other kind
CycleCorpus == {
    <<"q">>,
    <<"@","i","n","c","l","u","d","e"," ","b">>,
    <<"@","i","n","c","l","u","d","e"," ",".","/","a">>,
    <<"@","i","n","c","l","u","d","e"," ","\"","c","\"">>,
    <<"@","e","n","g","i","n","e"," ","f","o","o">>,
    <<"@","v","a","r"," ","T">>,
    <<"#"," ","c">> }

InitCycle == Start(<<>>, CycleCorpus, MaxLines)

\* the parser is one sequential computation: a step that can be taken is taken
FairSpec == InitCycle /\ [][Next]_vars /\ WF_vars(Next)

\* files with @engine lines: known, unknown, in capitals, without a name
EngineCorpus == {
    <<"q">>,
    <<"@","e","n","g","i","n","e"," ","b","i","n","g">>,
    <<"@","e","n","g","i","n","e"," ","G","i","t","H","u","b">>,
    <<"@","e","n","g","i","n","e"," ","f","o","o">>,
    <<"@","e","n","g","i","n","e">>,
    <<"@","i","n","c","l","u","d","e"," ","b">>,
    <<"@","v","a","r"," ","T"," ","="," ","d">>,
    <<"#"," ","c">> }

InitEngine == Start(<<>>, EngineCorpus, MaxLines)

SpecEngine == InitEngine /\ [][Next]_vars

\* files that define and use the variables T and TA
VarCorpus == {
    <<"$","T","A">>,
    <<"s",":","$","{","T","A","}">>,
    <<"@","v","a","r"," ","T"," ","="," ","d">>,
    <<"@","v","a","r"," ","T","A"," ","="," ","e">>,
    <<"@","i","n","c","l","u","d","e"," ","b">>,
    <<"@","e","n","g","i","n","e"," ","b","i","n","g">>,
    <<"#"," ","c">> }

\* the tables of overrides a caller may pass: VAR=value arguments in order
OverrideTables == {
    <<>>,
    <<[name |-> <<"T">>, value |-> <<"x">>]>>,
    <<[name |-> <<"T","A">>, value |-> <<"y">>]>>,
    <<[name |-> <<"T">>, value |-> <<"x">>], [name |-> <<"T","A">>, value |-> <<"y">>]>>,
    <<[name |-> <<"T","A">>, value |-> <<"y">>], [name |-> <<"T">>, value |-> <<"x">>]>> }

InitVars == \E table \in OverrideTables : Start(table, VarCorpus, MaxLines)

SpecVars == InitVars /\ [][Next]_vars

\* files whose variables have values that refer to other variables
NestCorpus == {
    <<"$","T">>,
    <<"@","v","a","r"," ","T"," ","="," ","$","U">>,
    <<"@","v","a","r"," ","U"," ","="," ","z">>,
    <<"@","i","n","c","l","u","d","e"," ","b">>,
    <<"@","e","n","g","i","n","e"," ","b","i","n","g">>,
    <<"#"," ","c">> }

\* overrides whose values refer to other variables, in both orders
NestTables == {
    <<>>,
    <<[name |-> <<"T">>, value |-> <<"$","{","U","}">>],
      [name |-> <<"U">>, value |-> <<"z">>]>>,
    <<[name |-> <<"U">>, value |-> <<"z">>],
      [name |-> <<"T">>, value |-> <<"$","{","U","}">>]>> }

InitNest == \E table \in NestTables : Start(table, NestCorpus, MaxLines)

SpecNest == InitNest /\ [][Next]_vars

\* files with references to defined, undefined and digit-named variables
WarnCorpus == {
    <<"$","1"," ","$","{","2","}">>,
    <<"$","U">>,
    <<"$","{","V","}"," ","$","1">>,
    <<"$","{","U">>,
    <<"@","v","a","r"," ","U"," ","="," ","d">>,
    <<"@","i","n","c","l","u","d","e"," ","b">>,
    <<"@","e","n","g","i","n","e"," ","b","i","n","g">>,
    <<"#"," ","c">> }

InitWarn == Start(<<>>, WarnCorpus, MaxLines)

SpecWarn == InitWarn /\ [][Next]_vars

\* the longest query handed to build_url
MaxQuery == 2

\* the characters of the queries handed to build_url: safe ones, reserved
\* ones, the blank, and characters of two and three bytes
QueryAlphabet ==
    {"a", "Z", "0", "_", ".", "-", "~", " ", "/", ":", "%", "+", "\"", "é", "€"}

\* the engine ids handed to build_url: the registered ones, an unknown one
\* and the empty one
EngineArgs == DOMAIN ENGINES \cup {<<"f","o","o">>, <<>>}

InitBuild ==
    /\ StartParse(<<>>, {}, 0)
    /\ options = DefaultOptions
    /\ urls = <<>>
    /\ events = <<>>
    /\ run_pc = [at |-> "off", i |-> 0]
    /\ \E q \in UNION {[1..n -> QueryAlphabet] : n \in 0..MaxQuery} :
       \E e \in EngineArgs :
          build_call = [query |-> q, engine |-> e, url |-> <<>>, returned |-> FALSE]

SpecBuild == InitBuild /\ [][NextBuild]_vars

\* files for run(): a query, and one line of each other kind
RunCorpus == {
    <<"q">>,
    <<"@","e","n","g","i","n","e"," ","b","i","n","g">>,
    <<"@","v","a","r"," ","T"," ","="," ","d">>,
    <<"@","i","n","c","l","u","d","e"," ","b">>,
    <<"#"," ","c">> }

\* run() is called with the options opts
StartRun(opts) ==
    /\ StartParse(<<>>, RunCorpus, MaxLines)
    /\ options = opts
    /\ urls = <<>>
    /\ events = <<>>
    /\ run_pc = [at |-> "parsed", i |-> 0]
    /\ build_call = NoCall

\* the limits of -n: none, negative, zero, below and above the number of
\* queries
Limits == {<<>>, <<-1>>, <<0>>, <<1>>, <<2>>, <<MaxLines + 1>>}

\* the three modes, each with every limit
InitLimit ==
    \E l \in Limits : \E u \in BOOLEAN : \E o \in {<<>>, <<"o">>} :
       /\ ~(u /\ o # <<>>)
       /\ StartRun([DefaultOptions EXCEPT
                       !.limit = l, !.urls_only = u, !.output_file = o])

SpecLimit == InitLimit /\ [][NextRun]_vars

\* every combination of preview, urls-only and output file
InitOpen ==
    \E p \in BOOLEAN : \E u \in BOOLEAN : \E o \in {<<>>, <<"o">>} :
       StartRun([DefaultOptions EXCEPT
                    !.preview = p, !.urls_only = u, !.output_file = o])

SpecOpen == InitOpen /\ [][NextRun]_vars

\* files that define the variable U twice, once without a value, and use it
DefCorpus == {
    <<"$","U">>,
    <<"@","v","a","r"," ","U"," ","="," ","d">>,
    <<"@","v","a","r"," ","U"," ","="," ","e">>,
    <<"@","v","a","r"," ","U">>,
    <<"@","i","n","c","l","u","d","e"," ","b">>,
    <<"@","e","n","g","i","n","e"," ","b","i","n","g">>,
    <<"#"," ","c">> }

\* without an override, and with an override of U
DefTables == {<<>>, <<[name |-> <<"U">>, value |-> <<"x">>]>>}

InitDefs == \E table \in DefTables : Start(table, DefCorpus, MaxLines)

SpecDefs == InitDefs /\ [][Next]_vars

\* the longest line of the one-line files
MaxLen == 5

\* the characters of the one-line files: text, blank, comment sign, quotes
StripAlphabet == {"a", " ", "#", "\"", "'"}

\* a file of one line: any text of up to MaxLen characters, or a directive
StripCorpus ==
    UNION {[1..n -> StripAlphabet] : n \in 0..MaxLen} \cup
    { <<"@","e","n","g","i","n","e"," ","b","i","n","g">>,
      <<"@","v","a","r"," ","T"," ","="," ","d">>,
      <<"@","i","n","c","l","u","d","e"," ","b">> }

InitStrip == Start(<<>>, StripCorpus, 1)

SpecStrip == InitStrip /\ [][Next]_vars

\* files with a query that has a reference and an inline comment, and the
\* lines that may follow it: blank, comment, @var, @engine, @include
RecordCorpus == {
    <<"$","T"," ","#","x">>,
    <<"q">>,
    <<>>,
    <<"#"," ","c">>,
    <<"@","v","a","r"," ","T"," ","="," ","d">>,
    <<"@","e","n","g","i","n","e"," ","b","i","n","g">>,
    <<"@","i","n","c","l","u","d","e"," ","b">> }

InitRecords == Start(<<>>, RecordCorpus, MaxLines)

SpecRecords == InitRecords /\ [][Next]_vars

-----------------------------------------------------------------------------
(* What the claims speak about.                                            *)

\* the resolved path of the file a record names (all files lie in the root)
FileOf(r) == [abs |-> TRUE, parts |-> <<r.file>>]

\* every record emitted so far: returned, or held by a call in progress
Emitted ==
    {result[i] : i \in 1..Len(result)} \cup
    UNION {{stack[k].queries[i] : i \in 1..Len(stack[k].queries)} :
           k \in 1..Len(stack)}

\* the path an @include line of file p names, resolved; <<>> without argument
IncludeTarget(p, raw) ==
    LET arg == IncludeArg(parent(p), Cleaned(raw))
    IN  IF arg = <<>> THEN <<>> ELSE <<resolve(arg[1])>>

-----------------------------------------------------------------------------
(* C2: include splice order.                                               *)

\* the depth-first source order: the query lines of file p from line i on,
\* as <<file name, line>>, each @include line replaced by the order of the
\* file it names unless that file was met before; seen is the files met
RECURSIVE WalkFrom(_, _, _)
WalkFrom(p, i, seen) ==
    IF i > Len(fs[p]) THEN [order |-> <<>>, seen |-> seen]
    ELSE
      LET raw == fs[p][i]
          t == IncludeTarget(p, raw)
      IN  IF IsIncludeLine(raw) /\ t # <<>>
          THEN LET sub == IF t[1] \in seen \/ ~exists(t[1])
                          THEN [order |-> <<>>, seen |-> seen]
                          ELSE WalkFrom(t[1], 1, seen \cup {t[1]})
                   rest == WalkFrom(p, i + 1, sub.seen)
               IN  [order |-> sub.order \o rest.order, seen |-> rest.seen]
          ELSE LET rest == WalkFrom(p, i + 1, seen)
               IN  [order |-> (IF IsQueryLine(raw) THEN <<<<name(p), i>>>> ELSE <<>>)
                                \o rest.order,
                    seen |-> rest.seen]

DepthFirstOrder(p) == WalkFrom(p, 1, {p}).order

\* C2: when the top-level call has returned, its records are the query lines
\* of the file tree in depth-first source order (the includer's records before
\* an @include, then the included file's, then the includer's after it), and
\* the records of one file are in increasing line order.
C2_SpliceOrder ==
    status = "done" =>
        /\ [i \in 1..Len(result) |-> <<result[i].file, result[i].line>>]
              = DepthFirstOrder(resolve(Path(filepath)))
        /\ \A i, j \in 1..Len(result) :
              i < j /\ result[i].file = result[j].file
                 => result[i].line < result[j].line

\* a file with a query before and after the @include of a file with a query
C2_Witness ==
    /\ status = "done"
    /\ \E i, j, k \in 1..Len(result) :
          /\ i < j /\ j < k
          /\ result[i].file = <<"a">> /\ result[j].file = <<"b">>
          /\ result[k].file = <<"a">>

-----------------------------------------------------------------------------
(* C3: cycles end.                                                         *)

\* the recursion depth: the calls nested inside the top-level call
Depth == IF stack = <<>> THEN 0 ELSE Len(stack) - 1

\* the calls that are reading a file
Parsing == {k \in 1..Len(stack) : stack[k].pc = "loop"}

Finished == status \in {"done", "exit"}

\* C3: whatever the files include (themselves, each other), the recursion is
\* never deeper than the number of files, no file is being parsed by two
\* calls at once, and the top-level call ends: it returns or exits.
C3_CyclesEnd ==
    /\ [](/\ Depth <= Cardinality(ExistingFiles)
          /\ Cardinality(Parsing) <= Cardinality(ExistingFiles)
          /\ \A j, k \in Parsing : stack[j].path = stack[k].path => j = k)
    /\ <>Finished

\* a -> b -> c -> a: the call for a, as deep as there are files, is about to
\* return at the include-set check
C3_Witness ==
    /\ status = "running"
    /\ Depth = Cardinality(ExistingFiles)
    /\ Top.pc = "entry"
    /\ Top.path = stack[1].path

-----------------------------------------------------------------------------
(* C4: a file is included at most once.                                    *)

\* the @include lines of file p, read so far, that name the file t
IncludesOf(p, t) ==
    {i \in 1..Len(fs[p]) : IsIncludeLine(fs[p][i]) /\ IncludeTarget(p, fs[p][i]) = <<t>>}

\* C4: no file is read more than once, and no query line has two records:
\* an @include of a file already in the include set adds nothing.
C4_AtMostOnce ==
    /\ \A p \in ExistingFiles : reads[p] <= 1
    /\ \A q \in {result} \cup {stack[k].queries : k \in 1..Len(stack)} :
          \A i, j \in 1..Len(q) :
             q[i].file = q[j].file /\ q[i].line = q[j].line => i = j

\* b, which holds a query, is named by two @include lines (of one file or of
\* two) and a itself by a third kind of line, and the call has returned
C4_Witness ==
    /\ status = "done"
    /\ \E t \in ExistingFiles :
          /\ \E i \in 1..Len(fs[t]) : IsQueryLine(fs[t][i])
          /\ Cardinality({<<p, i>> \in ExistingFiles \X (1..MaxLines) :
                             i \in IncludesOf(p, t)}) >= 2
          /\ reads[t] = 1

-----------------------------------------------------------------------------
(* C9: what aborts the parse and what does not.                            *)

\* file p holds, at line i, a circular @include: one of a file being parsed
CircularAt(p, i) ==
    /\ IsIncludeLine(fs[p][i])
    /\ IncludeTarget(p, fs[p][i]) = <<p>>

\* C9: the parse exits only in a call for a file that does not exist, and
\* then nothing was returned; when it returns, every query line of every file
\* it read has its record, whatever unknown engines, undefined variables,
\* malformed @var lines and circular includes the files hold.
C9_OnlyMissingFileAborts ==
    /\ status = "exit" =>
          /\ Top.pc = "entry" /\ ~exists(Top.path)
          /\ result = <<>>
    /\ status = "done" =>
          \A p \in ExistingFiles : \A i \in 1..Len(fs[p]) :
             IsQueryLine(fs[p][i]) =>
                \E k \in 1..Len(result) :
                   result[k].file = name(p) /\ result[k].line = i

\* the top-level file holds an unknown @engine, a malformed @var and a
\* circular @include, then a query with an undefined variable; the call
\* returned that query's record and printed both warnings
C9_Witness ==
    /\ status = "done"
    /\ \E p \in ExistingFiles : \E n \in 1..Len(fs[p]) :
          /\ \E i \in 1..(n - 1) :
                IsEngineLine(fs[p][i]) /\ EngineUnknown(Cleaned(fs[p][i]))
          /\ \E i \in 1..(n - 1) :
                IsVarLine(fs[p][i]) /\ VarMatch(Cleaned(fs[p][i])) = <<>>
          /\ \E i \in 1..(n - 1) : CircularAt(p, i)
          /\ IsQueryLine(fs[p][n])
          /\ \E k \in 1..Len(result) :
                /\ result[k].file = name(p) /\ result[k].line = n
                /\ findall_vars(result[k].query) # <<>>
          /\ \E w \in 1..Len(stderr) : stderr[w].kind = "unknown_engine"
          /\ \E w \in 1..Len(stderr) : stderr[w].kind = "undefined"

-----------------------------------------------------------------------------
(* C5, C6, C7: the current engine.                                         *)

\* whether line i of file p is an @engine line with a name, and the name
NamesEngine(p, i) == IsEngineLine(fs[p][i]) /\ Len(split(Cleaned(fs[p][i]))) > 1

EngineNamed(p, i) == lower(split(Cleaned(fs[p][i]))[2])

\* the engine file p's own lines select after its first n lines: the name of
\* the last @engine line that names a registered engine, "google" if none
RECURSIVE OwnEngine(_, _)
OwnEngine(p, n) ==
    IF n = 0 THEN google
    ELSE IF NamesEngine(p, n) /\ EngineNamed(p, n) \in DOMAIN ENGINES
         THEN EngineNamed(p, n)
    ELSE OwnEngine(p, n - 1)

\* C5: a call starts with google, whatever the engine of the includer; the
\* engine of a call in progress, before as after the includes it made, is the
\* one its own file's lines select; and so is the engine of every record.
C5_EnginePerFile ==
    /\ \A k \in 1..Len(stack) :
          IF stack[k].pc = "entry" THEN stack[k].current_engine = google
          ELSE stack[k].current_engine = OwnEngine(stack[k].path, stack[k].line_num)
    /\ \A r \in Emitted : r.engine = OwnEngine(FileOf(r), r.line - 1)

\* the includer was on another engine than google at its @include line; the
\* included file emitted a record on google, then chose a third engine and
\* returned; the includer is back on its own engine
C5_Witness ==
    /\ status = "running" /\ Len(stack) = 1 /\ Top.pc = "loop"
    /\ Top.line_num >= 1
    /\ \E t \in ExistingFiles \ {Top.path} :
          /\ Top.line_num \in IncludesOf(Top.path, t)
          /\ t \in closed
          /\ \E r \in Emitted : r.file = name(t) /\ r.engine = google
          /\ OwnEngine(t, Len(fs[t])) \notin {google, Top.current_engine}
    /\ Top.current_engine # google

\* the engine the claim C6 expects after the first n lines of file p: an
\* @engine line with an unknown name puts the engine back to google
RECURSIVE ClaimedEngine(_, _)
ClaimedEngine(p, n) ==
    IF n = 0 THEN google
    ELSE IF NamesEngine(p, n)
         THEN IF EngineNamed(p, n) \in DOMAIN ENGINES
              THEN EngineNamed(p, n) ELSE google
    ELSE ClaimedEngine(p, n - 1)

\* C6 (as claimed): after an @engine line with an unknown name the engine is
\* google for the following queries of the file, wherever the line stands,
\* also after a valid @engine line; the line is warned about and the parse
\* goes on.
C6_UnknownEngineIsGoogle ==
    /\ \A r \in Emitted : r.engine = ClaimedEngine(FileOf(r), r.line - 1)
    /\ \A k \in Parsing :
          LET p == stack[k].path
              n == stack[k].line_num
          IN  n >= 1 /\ NamesEngine(p, n) /\ EngineNamed(p, n) \notin DOMAIN ENGINES
                 => /\ status # "exit"
                    /\ \E w \in 1..Len(stderr) :
                          /\ stderr[w].kind = "unknown_engine"
                          /\ stderr[w].file = name(p) /\ stderr[w].line = n

\* C7: the engine of every record, and of every call, is a key of ENGINES.
C7_EngineRegistered ==
    /\ \A r \in Emitted : r.engine \in DOMAIN ENGINES
    /\ \A k \in 1..Len(stack) : stack[k].current_engine \in DOMAIN ENGINES

\* a record emitted after an @engine line in capitals, one with an unknown
\* name and one without a name
C7_Witness ==
    \E r \in Emitted :
       LET p == FileOf(r)
       IN  /\ \E i \in 1..(r.line - 1) :
                 NamesEngine(p, i) /\ EngineNamed(p, i) \notin DOMAIN ENGINES
           /\ \E i \in 1..(r.line - 1) :
                 NamesEngine(p, i) /\ split(Cleaned(fs[p][i]))[2] # EngineNamed(p, i)
           /\ \E i \in 1..(r.line - 1) :
                 IsEngineLine(fs[p][i]) /\ ~NamesEngine(p, i)
           /\ r.engine # google

-----------------------------------------------------------------------------
(* C1, C8: references to variables.  A reference is $NAME or ${NAME}, NAME *)
(* the longest run of word characters; it stands for the value of NAME.    *)

\* the text with every reference to a name the table binds replaced by the
\* value of that name, in one pass from left to right
RECURSIVE Expand(_, _)
Expand(s, table) ==
    IF s = <<>> THEN <<>>
    ELSE IF Head(s) = "$"
    THEN LET t == Tail(s)
             braced == t # <<>> /\ Head(t) = "{"
             u == IF braced THEN Tail(t) ELSE t
             n == RunLen(u, WordChars)
             w == From(u, n + 1)
             isref == n > 0 /\ (braced => w # <<>> /\ Head(w) = "}")
         IN  IF isref /\ Bound(table, SubSeq(u, 1, n))
             THEN Lookup(table, SubSeq(u, 1, n))
                     \o Expand(IF braced THEN Tail(w) ELSE w, table)
             ELSE <<"$">> \o Expand(t, table)
    ELSE <<Head(s)>> \o Expand(Tail(s), table)

\* the names the text refers to
RECURSIVE References(_)
References(s) ==
    IF s = <<>> THEN {}
    ELSE IF Head(s) = "$"
    THEN LET t == Tail(s)
             braced == t # <<>> /\ Head(t) = "{"
             u == IF braced THEN Tail(t) ELSE t
             n == RunLen(u, WordChars)
             w == From(u, n + 1)
             isref == n > 0 /\ (braced => w # <<>> /\ Head(w) = "}")
         IN  IF isref
             THEN {SubSeq(u, 1, n)} \cup References(IF braced THEN Tail(w) ELSE w)
             ELSE References(t)
    ELSE References(Tail(s))

Names(table) == {table[i].name : i \in 1..Len(table)}

\* C1 (as claimed): a name the caller's table binds stays bound to the
\* caller's value whatever @var lines the files hold, and in every record the
\* references to such names are replaced by the caller's values (stated for
\* the records whose references are all to names the caller bound).
C1_OverridePrecedence ==
    /\ \A i \in 1..Len(overrides) :
          /\ Bound(variables, overrides[i].name)
          /\ Lookup(variables, overrides[i].name) = overrides[i].value
    /\ \A r \in Emitted :
          References(r.original) \subseteq Names(overrides)
             => r.query = Expand(r.original, overrides)

\* the first half of C1 alone: the caller's bindings are never overwritten
OverridesKept ==
    \A i \in 1..Len(overrides) :
       /\ Bound(variables, overrides[i].name)
       /\ Lookup(variables, overrides[i].name) = overrides[i].value

\* the @var lines, read so far, of names the text of no other @var line and
\* no override binds: <<file, line, name, value>>
SoleDefinitions ==
    LET defs == {d \in ExistingFiles \X (1..MaxLines) :
                    /\ d[2] <= Len(fs[d[1]])
                    /\ IsVarLine(fs[d[1]][d[2]])
                    /\ VarMatch(Cleaned(fs[d[1]][d[2]])) # <<>>}
        nameof(d) == VarMatch(Cleaned(fs[d[1]][d[2]]))[1]
        valueof(d) == VarMatch(Cleaned(fs[d[1]][d[2]]))[2]
    IN  {<<d[1], d[2], nameof(d), valueof(d)>> : d \in
            {d \in defs : /\ nameof(d) \notin Names(overrides)
                          /\ \A e \in defs : nameof(e) = nameof(d) => e = d}}

\* C8 (as claimed): when file A included file B (B was parsed and has
\* returned), B holds "@var X = v", nothing else binds X, and A refers to X
\* (and to nothing else) in a query line after the @include line, the
\* record's query is the line with the references replaced by v.
C8_IncludedVarVisible ==
    \A k \in Parsing :
       LET A == stack[k].path
       IN  \A r \in {stack[k].queries[i] : i \in 1..Len(stack[k].queries)} :
           \A d \in SoleDefinitions :
              /\ r.file = name(A)
              /\ d[1] # A
              /\ d[1] \in closed
              /\ \E m \in IncludesOf(A, d[1]) : m < r.line
              /\ References(r.original) = {d[3]}
              => r.query = Expand(r.original, <<[name |-> d[3], value |-> d[4]]>>)

-----------------------------------------------------------------------------
(* C10: inline comments.                                                   *)

\* where the end of the text lies: outside quotes ("none"), inside a
\* single-quoted or inside a double-quoted span
RECURSIVE QuoteAfter(_)
QuoteAfter(text) ==
    IF text = <<>> THEN "none"
    ELSE LET before == QuoteAfter(SubSeq(text, 1, Len(text) - 1))
             ch == text[Len(text)]
         IN  IF before = "none"
             THEN IF ch = "'" THEN "single" ELSE IF ch = "\"" THEN "double" ELSE "none"
             ELSE IF (before = "single" /\ ch = "'") \/ (before = "double" /\ ch = "\"")
                  THEN "none" ELSE before

\* the places of the text where a comment starts: a # outside every quoted
\* span, at the start or after whitespace
CommentStarts(text) ==
    {i \in 1..Len(text) :
        /\ text[i] = "#"
        /\ i = 1 \/ isspace(text[i - 1])
        /\ QuoteAfter(SubSeq(text, 1, i - 1)) = "none"}

IsDirectiveText(text) ==
    startswith(text, KwEngine) \/ startswith(text, KwVar) \/ startswith(text, KwInclude)

\* C10: a one-line file "text # comment" (a # at the start or after
\* whitespace; text with its quotes balanced, no comment start of its own
\* and no directive) yields one record whose query is text trimmed, and no
\* record when nothing is left of the line without its comment.
C10_InlineComment ==
    status = "done" /\ Len(fs[resolve(Path(filepath))]) = 1 =>
       \A i \in 1..Len(fs[resolve(Path(filepath))][1]) :
          LET line == fs[resolve(Path(filepath))][1]
              text == SubSeq(line, 1, i - 1)
          IN  /\ line[i] = "#"
              /\ i = 1 \/ isspace(line[i - 1])
              /\ QuoteAfter(text) = "none"
              /\ CommentStarts(text) = {}
              /\ ~IsDirectiveText(strip(text))
              => IF strip(text) = <<>> THEN result = <<>>
                 ELSE /\ Len(result) = 1
                      /\ result[1].query = strip(text)
                      /\ result[1].original = strip(text)

\* the text holds a quoted # and is followed by a comment, which is gone
C10_Witness ==
    /\ status = "done"
    /\ Len(fs[resolve(Path(filepath))]) = 1
    /\ Len(result) = 1
    /\ LET line == fs[resolve(Path(filepath))][1]
       IN  \E i \in 1..Len(line) :
              /\ line[i] = "#" /\ isspace(line[i - 1])
              /\ QuoteAfter(SubSeq(line, 1, i - 1)) = "none"
              /\ \E j \in 1..(i - 1) : line[j] = "#"
              /\ result[1].query = strip(SubSeq(line, 1, i - 1))

-----------------------------------------------------------------------------
(* C11: a literal #.                                                       *)

\* the one line of the top-level file, trimmed
OneLine == strip(fs[resolve(Path(filepath))][1])

\* where the comment of the text begins: its first comment start, or past
\* its end when it has none
CommentAt(text) ==
    IF CommentStarts(text) = {} THEN Len(text) + 1
    ELSE CHOOSE i \in CommentStarts(text) : \A j \in CommentStarts(text) : i <= j

\* the # of the text that are literal: inside a quoted span, or outside
\* quotes and after a character that is not whitespace
LiteralHashes(text) ==
    {i \in 1..Len(text) : text[i] = "#" /\ i \notin CommentStarts(text)}

\* C11: in a one-line file whose line is no directive, the comment begins at
\* the first # outside every quoted span that starts the line or follows
\* whitespace and nowhere else: every # before it (inside quotes, or after a
\* character that is not whitespace) is in the record's query at its place,
\* and the query is the line up to the comment, trimmed.
C11_LiteralHash ==
    status = "done" /\ Len(fs[resolve(Path(filepath))]) = 1
       /\ ~IsDirectiveText(OneLine) =>
       LET kept == rstrip(SubSeq(OneLine, 1, CommentAt(OneLine) - 1))
       IN  IF kept = <<>> THEN result = <<>>
           ELSE /\ Len(result) = 1
                /\ result[1].query = kept
                /\ \A i \in LiteralHashes(OneLine) :
                      i < CommentAt(OneLine) =>
                         /\ i <= Len(result[1].query)
                         /\ result[1].query[i] = "#"

\* the line holds a # inside a closed double-quoted span, after a blank, and
\* a # outside quotes after a character that is not whitespace; the whole
\* line is the query
C11_Witness ==
    /\ status = "done"
    /\ Len(fs[resolve(Path(filepath))]) = 1
    /\ Len(result) = 1
    /\ result[1].query = OneLine
    /\ QuoteAfter(OneLine) = "none"
    /\ \E i \in LiteralHashes(OneLine) :
          QuoteAfter(SubSeq(OneLine, 1, i - 1)) = "double" /\ isspace(OneLine[i - 1])
    /\ \E i \in LiteralHashes(OneLine) :
          QuoteAfter(SubSeq(OneLine, 1, i - 1)) = "none"

-----------------------------------------------------------------------------
(* C12: values that refer to variables.                                    *)

\* the innermost call has just emitted the record of the query line it read
\* last: the table is the one the line was substituted under
JustEmitted ==
    /\ InLoop
    /\ Top.queries # <<>>
    /\ Top.queries[Len(Top.queries)].line = Top.line_num
    /\ Top.queries[Len(Top.queries)].file = name(Top.path)

LastRecord == Top.queries[Len(Top.queries)]

\* no name of the table is a proper prefix of another name of the table or
\* of a name the text refers to
NoPrefixNames(s, table) ==
    \A n \in Names(table) : \A m \in Names(table) \cup References(s) :
       n = m \/ ~startswith(m, n)

\* C12 (as claimed): a query line that refers to defined variables only
\* becomes the line with each reference replaced by the value of its
\* variable, the value taken as it is: a reference inside a value is not
\* expanded, whatever the order of the table (stated for tables without
\* names that are prefixes of other names).
C12_NoResubstitution ==
    JustEmitted /\ References(LastRecord.original) \subseteq Names(variables)
       /\ NoPrefixNames(LastRecord.original, variables)
       => LastRecord.query = Expand(LastRecord.original, variables)

-----------------------------------------------------------------------------
(* C13: the undefined-variable warning.                                    *)

\* the undefined-variable warnings printed for line n of the file named f
UndefinedWarnings(f, n) ==
    {w \in 1..Len(stderr) :
        stderr[w].kind = "undefined" /\ stderr[w].file = f /\ stderr[w].line = n}

\* the text holds a $NAME or ${NAME} token whose name is not all digits
HasNamedToken(s) == \E n \in References(s) : ~isdigit(n)

\* C13 (as claimed): a query line has an undefined-variable warning exactly
\* when its query, after substitution, holds a $NAME or ${NAME} token whose
\* name is not all digits; with or without warning the line has its one
\* record, and every such warning is for a line that has a record.
C13_UndefinedWarning ==
    /\ \A r \in Emitted :
          /\ UndefinedWarnings(r.file, r.line) # {} <=> HasNamedToken(r.query)
          /\ Cardinality(UndefinedWarnings(r.file, r.line)) <= 1
    /\ \A w \in 1..Len(stderr) :
          stderr[w].kind = "undefined" =>
             \E r \in Emitted : r.file = stderr[w].file /\ r.line = stderr[w].line
    /\ \A q \in {result} \cup {stack[k].queries : k \in 1..Len(stack)} :
          \A i, j \in 1..Len(q) :
             q[i].file = q[j].file /\ q[i].line = q[j].line => i = j

\* the part of C13 the code keeps: every token the warning names is a token
\* of the query, and digit-named tokens are never named
WarningNamesTokens ==
    \A w \in 1..Len(stderr) :
       stderr[w].kind = "undefined" =>
          /\ stderr[w].names # <<>>
          /\ \A i \in 1..Len(stderr[w].names) : ~isdigit(stderr[w].names[i])
          /\ \E r \in Emitted :
                /\ r.file = stderr[w].file /\ r.line = stderr[w].line
                /\ \A n \in References(r.query) :
                      ~isdigit(n) => \E i \in 1..Len(stderr[w].names) :
                                        stderr[w].names[i] = n

-----------------------------------------------------------------------------
(* C14, C15: the URLs build_url returns.  Percent-decoding and base64      *)
(* decoding are stated here on their own, as the reader of a URL does them. *)

\* chr(cp), for the code points of the model
chr(cp) == CodePoints[CHOOSE i \in 1..Len(CodePoints) : CodePoints[i][2] = cp][1]

LowerHex == <<"0","1","2","3","4","5","6","7","8","9","a","b","c","d","e","f">>

IsHex(ch) == \E v \in 1..16 : HexDigits[v] = ch \/ LowerHex[v] = ch

HexValue(ch) == (CHOOSE v \in 1..16 : HexDigits[v] = ch \/ LowerHex[v] = ch) - 1

\* the bytes of a text of ASCII characters with every %XX taken as one byte
RECURSIVE unquote_to_bytes(_)
unquote_to_bytes(s) ==
    IF s = <<>> THEN <<>>
    ELSE IF Head(s) = "%" /\ Len(s) >= 3 /\ IsHex(s[2]) /\ IsHex(s[3])
    THEN <<16 * HexValue(s[2]) + HexValue(s[3])>> \o unquote_to_bytes(SubSeq(s, 4, Len(s)))
    ELSE <<ord(Head(s))>> \o unquote_to_bytes(Tail(s))

IsContinuation(b) == 128 <= b /\ b < 192

\* bytes.decode("utf-8", "replace"), for characters of up to three bytes
RECURSIVE decode(_)
decode(b) ==
    IF b = <<>> THEN <<>>
    ELSE IF b[1] < 128 THEN <<chr(b[1])>> \o decode(Tail(b))
    ELSE IF 194 <= b[1] /\ b[1] < 224 /\ Len(b) >= 2 /\ IsContinuation(b[2])
    THEN <<chr((b[1] - 192) * 64 + (b[2] - 128))>> \o decode(SubSeq(b, 3, Len(b)))
    ELSE IF 224 <= b[1] /\ b[1] < 240 /\ Len(b) >= 3
            /\ IsContinuation(b[2]) /\ IsContinuation(b[3])
            /\ (b[1] = 224 => b[2] >= 160)
    THEN <<chr((b[1] - 224) * 4096 + (b[2] - 128) * 64 + (b[3] - 128))>>
            \o decode(SubSeq(b, 4, Len(b)))
    ELSE <<"�">> \o decode(Tail(b))

\* the length of the leading run of ASCII characters
RECURSIVE AsciiLen(_)
AsciiLen(s) ==
    IF s = <<>> \/ ord(Head(s)) >= 128 THEN 0 ELSE 1 + AsciiLen(Tail(s))

\* percent-decoding (urllib.parse.unquote): the runs of ASCII characters are
\* decoded, the other characters stay
RECURSIVE unquote(_)
unquote(s) ==
    IF s = <<>> THEN <<>>
    ELSE IF AsciiLen(s) = 0 THEN <<Head(s)>> \o unquote(Tail(s))
    ELSE decode(unquote_to_bytes(SubSeq(s, 1, AsciiLen(s))))
            \o unquote(SubSeq(s, AsciiLen(s) + 1, Len(s)))

B64Value(ch) == (CHOOSE v \in 1..64 : B64Alphabet[v] = ch) - 1

\* the text is canonical padded base64: groups of four characters of the
\* alphabet, "=" only at the end of the last group, no stray bits
RECURSIVE IsBase64(_)
IsBase64(e) ==
    IF e = <<>> THEN TRUE
    ELSE /\ Len(e) >= 4
         /\ \A i \in 1..2 : \E v \in 1..64 : B64Alphabet[v] = e[i]
         /\ IF e[3] = "="
            THEN Len(e) = 4 /\ e[4] = "=" /\ B64Value(e[2]) % 16 = 0
            ELSE /\ \E v \in 1..64 : B64Alphabet[v] = e[3]
                 /\ IF e[4] = "="
                    THEN Len(e) = 4 /\ B64Value(e[3]) % 4 = 0
                    ELSE /\ \E v \in 1..64 : B64Alphabet[v] = e[4]
                         /\ IsBase64(SubSeq(e, 5, Len(e)))

\* the bytes a canonical padded base64 text stands for
RECURSIVE b64decode(_)
b64decode(e) ==
    IF e = <<>> THEN <<>>
    ELSE LET v1 == B64Value(e[1])
             v2 == B64Value(e[2])
         IN  IF e[3] = "=" THEN <<v1 * 4 + (v2 \div 16)>>
             ELSE IF e[4] = "="
             THEN <<v1 * 4 + (v2 \div 16), (v2 % 16) * 16 + (B64Value(e[3]) \div 4)>>
             ELSE <<v1 * 4 + (v2 \div 16),
                    (v2 % 16) * 16 + (B64Value(e[3]) \div 4),
                    (B64Value(e[3]) % 4) * 64 + B64Value(e[4])>>
                  \o b64decode(SubSeq(e, 5, Len(e)))

\* the text is the percent-encoding of the query that leaves the characters
\* of the set keep as they are: it holds "%", upper-case hexadecimal digits
\* and characters of keep only, decodes to the query, and has one character
\* for each character of the query in keep and three for each byte of the
\* others
RECURSIVE EncodedLen(_, _)
EncodedLen(q, keep) ==
    IF q = <<>> THEN 0
    ELSE (IF Head(q) \in keep THEN 1 ELSE 3 * Len(encode_char(Head(q))))
         + EncodedLen(Tail(q), keep)

IsPercentEncoding(e, q, keep) ==
    /\ \A i \in 1..Len(e) :
          \/ e[i] \in keep
          \/ e[i] = "%" /\ i + 2 <= Len(e)
                /\ \A j \in {i + 1, i + 2} : \E v \in 1..16 : HexDigits[v] = e[j]
          \/ /\ \E v \in 1..16 : HexDigits[v] = e[i]
             /\ \E k \in {i - 1, i - 2} : k >= 1 /\ e[k] = "%"
    /\ unquote(e) = q
    /\ Len(e) = EncodedLen(q, keep)

\* the part of the URL after the base
AfterBase(url, base) == SubSeq(url, Len(base) + 1, Len(url))

DefaultEngines == DOMAIN ENGINES \ {archive, fofa, hunter}

\* C14: build_url returns for every query and every engine id, and the URL
\* is the base of the engine (of google for an id that is not registered)
\* followed by: the query as it is for archive; the canonical padded base64
\* of the UTF-8 bytes of the query for fofa; the percent-encoding that keeps
\* only letters, digits and "_.-~" for hunter; the percent-encoding that
\* keeps "/" as well for every other id.
C14_BuildUrlEncodings ==
    /\ ~build_call.returned => ENABLED BuildUrl
    /\ build_call.returned =>
          LET q == build_call.query
              e == build_call.engine
              base == IF e \in DOMAIN ENGINES THEN ENGINES[e] ELSE ENGINES[google]
              rest == AfterBase(build_call.url, base)
          IN  /\ startswith(build_call.url, base)
              /\ e = archive => rest = q
              /\ e = fofa => IsBase64(rest) /\ b64decode(rest) = encode(q)
              /\ e = hunter => IsPercentEncoding(rest, q, AlwaysSafe)
              /\ e \notin {archive, fofa, hunter} =>
                    IsPercentEncoding(rest, q, AlwaysSafe \cup {"/"})

\* build_url has returned the URL of a query with a "/" for hunter, which
\* has no "/" after the base
C14_Witness ==
    /\ build_call.returned
    /\ build_call.engine = hunter
    /\ \E i \in 1..Len(build_call.query) : build_call.query[i] = "/"
    /\ \A i \in 1..Len(AfterBase(build_call.url, ENGINES[hunter])) :
          AfterBase(build_call.url, ENGINES[hunter])[i] # "/"

\* C15: for the engines that take the default encoding, the URL starts with
\* the engine's base, and what follows, percent-decoded, is the query.
C15_RoundTrip ==
    build_call.returned /\ build_call.engine \in DefaultEngines =>
       /\ startswith(build_call.url, ENGINES[build_call.engine])
       /\ unquote(AfterBase(build_call.url, ENGINES[build_call.engine]))
             = build_call.query

\* a query that holds a "%" or a blank and a "%" or a character of several
\* bytes has come back from a URL that is not the base followed by the query
C15_Witness ==
    /\ build_call.returned
    /\ build_call.engine \in DefaultEngines
    /\ \E i \in 1..Len(build_call.query) : build_call.query[i] \in {"%", " "}
    /\ \E i \in 1..Len(build_call.query) : build_call.query[i] \in {"%", "é", "€"}
    /\ build_call.url # ENGINES[build_call.engine] \o build_call.query
    /\ unquote(AfterBase(build_call.url, ENGINES[build_call.engine]))
          = build_call.query

-----------------------------------------------------------------------------
(* C16, C17: run().                                                        *)

\* run() has passed the limit: the list of URLs is made
Collected == status = "done" /\ run_pc.at \in {"collected", "written", "display", "return"}

\* how many records "the first N" are, of a list of the given length
FirstCount(n, length) == IF n <= 0 THEN 0 ELSE IF n < length THEN n ELSE length

\* C16 (as claimed): with limit N the URLs are those of the first N records
\* the parser returned, in their order: none for N = 0 (and below), all for
\* N above the number of records; without a limit they are those of all
\* records.
C16_Limit ==
    Collected /\ result # <<>> =>
       LET count == IF options.limit = <<>> THEN Len(result)
                    ELSE FirstCount(options.limit[1], Len(result))
       IN  /\ Len(urls) = count
           /\ \A i \in 1..Len(urls) :
                 /\ urls[i].query = result[i].query
                 /\ urls[i].line = result[i].line
                 /\ urls[i].file = result[i].file

\* the part of C16 the code keeps: a positive limit, or none
PositiveLimit ==
    Collected /\ result # <<>> /\ (options.limit = <<>> \/ options.limit[1] > 0) =>
       /\ Len(urls) = IF options.limit = <<>> THEN Len(result)
                      ELSE FirstCount(options.limit[1], Len(result))
       /\ \A i \in 1..Len(urls) :
             urls[i].query = result[i].query /\ urls[i].line = result[i].line

IsBrowserStep(e) == e.kind \in {"open", "sleep"}

\* what run() did with the browser and the clock so far, in order
BrowserSteps == SelectSeq(events, IsBrowserStep)

\* every URL of the list opened once, in order, with the delay between two
\* of them
OpenedInOrder ==
    [j \in 1..(2 * Len(urls) - 1) |->
        IF j % 2 = 1 THEN [kind |-> "open", url |-> urls[(j + 1) \div 2].url]
        ELSE [kind |-> "sleep", delay |-> options.delay]]

\* C17: with preview or urls-only set, with or without an output file,
\* run() never opens a URL (and never sleeps); with neither set, when run()
\* returns it has opened every URL of its list once, in the order of the
\* list, and slept between two opens, not after the last; and at every
\* moment what it has opened is a start of that.
C17_BrowserOpen ==
    /\ options.preview \/ options.urls_only => BrowserSteps = <<>>
    /\ ~options.preview /\ ~options.urls_only =>
          /\ Len(BrowserSteps) <= Len(OpenedInOrder)
          /\ BrowserSteps = SubSeq(OpenedInOrder, 1, Len(BrowserSteps))
          /\ status = "done" /\ run_pc.at = "return" => BrowserSteps = OpenedInOrder

\* run() has returned after it wrote two or more URLs to the output file
\* and opened them, with a sleep between
C17_Witness ==
    /\ status = "done" /\ run_pc.at = "return"
    /\ ~options.preview /\ ~options.urls_only /\ options.output_file # <<>>
    /\ Len(urls) >= 2
    /\ urls[1].url # urls[2].url
    /\ \E i \in 1..Len(events) : events[i].kind = "write"
    /\ Len(BrowserSteps) = 2 * Len(urls) - 1
    /\ BrowserSteps[2].kind = "sleep"

-----------------------------------------------------------------------------
(* C18: the variable table.                                                *)

\* this step is the innermost call taking an @var line
TakesVarLine ==
    /\ InLoop
    /\ Len(stack') = Len(stack)
    /\ stack'[Len(stack)].line_num = Top.line_num + 1
    /\ IsVarLine(fs'[Top.path][Top.line_num + 1])

\* what the regular expression finds in that line
VarLineMatch == VarMatch(Cleaned(fs'[Top.path][Top.line_num + 1]))

\* C18: in every step the table keeps all its bindings, each with its value
\* and at its place, and binds no name twice; a step that takes "@var N = v"
\* leaves the table as it is when N is bound and binds N to v when it is
\* not; a step that takes a malformed @var line changes neither the table
\* nor the records nor the diagnostics.
C18_FirstDefinitionWins ==
    [][/\ Len(variables') >= Len(variables)
       /\ SubSeq(variables', 1, Len(variables)) = variables
       /\ \A i, j \in 1..Len(variables') :
             variables'[i].name = variables'[j].name => i = j
       /\ TakesVarLine =>
             IF VarLineMatch = <<>>
             THEN /\ variables' = variables
                  /\ Emitted' = Emitted
                  /\ stderr' = stderr
             ELSE /\ Lookup(variables', VarLineMatch[1])
                        = IF Bound(variables, VarLineMatch[1])
                          THEN Lookup(variables, VarLineMatch[1])
                          ELSE VarLineMatch[2]
                  /\ Len(variables') = Len(variables)
                        + (IF Bound(variables, VarLineMatch[1]) THEN 0 ELSE 1)
      ]_vars

\* the lines of file p read so far that define U with the value v
DefinesU(p, v) ==
    {i \in 1..Len(fs[p]) :
        IsVarLine(fs[p][i]) /\ VarMatch(Cleaned(fs[p][i])) = <<<<"U">>, v>>}

\* the parse has returned; the included file b defined U as d, the top-level
\* file defined it as e after the @include and then held a query, whose
\* record has the first value
C18_Witness ==
    /\ status = "done"
    /\ overrides = <<>>
    /\ LET a == resolve(Path(filepath))
           b == resolve(Path(<<"b">>))
       IN  /\ DefinesU(b, <<"d">>) # {}
           /\ \E i \in IncludesOf(a, b) : \E j \in DefinesU(a, <<"e">>) :
              \E r \in Emitted :
                 /\ i < j
                 /\ r.file = name(a) /\ r.line > j
                 /\ r.query = <<"d">>
    /\ Lookup(variables, <<"U">>) = <<"d">>

-----------------------------------------------------------------------------
(* C19: one record per query line.                                         *)

\* the line without its comment: trimmed, cut before the first place where
\* a comment starts, and trimmed again
CommentFree(raw) ==
    LET line == strip(raw)
        starts == CommentStarts(line)
    IN  IF starts = {} THEN line
        ELSE LET i == CHOOSE i \in starts : \A j \in starts : i <= j
             IN  strip(SubSeq(line, 1, i - 1))

\* the line is a query line: not blank, not a comment, something left
\* without its comment, and no directive
IsRecordLine(raw) ==
    /\ strip(raw) # <<>>
    /\ Head(strip(raw)) # "#"
    /\ CommentFree(raw) # <<>>
    /\ ~IsDirectiveText(CommentFree(raw))

\* how many records of the sequence are those of line i of the file named f
CountOf(q, f, i) == Cardinality({k \in 1..Len(q) : q[k].file = f /\ q[k].line = i})

IsPrefix(s, t) == Len(s) <= Len(t) /\ SubSeq(t, 1, Len(s)) = s

\* every line read so far has one record if it is a query line, none if not
OneRecordPerLine ==
    /\ \A k \in Parsing :
          LET p == stack[k].path
          IN  \A i \in 1..Len(fs[p]) :
                 CountOf(stack[k].queries, name(p), i)
                    = IF i <= stack[k].line_num /\ IsRecordLine(fs[p][i])
                      THEN 1 ELSE 0
    /\ status = "done" =>
          \A p \in closed : \A i \in 1..Len(fs[p]) :
             CountOf(result, name(p), i) = IF IsRecordLine(fs[p][i]) THEN 1 ELSE 0

\* the fields of every record: the number of a line of its file, counted
\* from 1, a file name without directories, the line without its comment
RecordFields ==
    \A r \in Emitted :
       /\ \E p \in closed \cup {stack[k].path : k \in Parsing} : r.file = name(p)
       /\ \A j \in 1..Len(r.file) : r.file[j] # "/"
       /\ r.line \in 1..Len(fs[FileOf(r)])
       /\ IsRecordLine(fs[FileOf(r)][r.line])
       /\ r.original = CommentFree(fs[FileOf(r)][r.line])

\* no step changes or drops a record: the records of every call, and the
\* returned ones, only grow at the end
RecordsKept ==
    /\ Emitted \subseteq Emitted'
    /\ IsPrefix(result, result')
    /\ \A k \in 1..Len(stack) :
          k <= Len(stack') => IsPrefix(stack[k].queries, stack'[k].queries)

\* C19: every query line read (not blank, not a comment, not empty without
\* its inline comment, no directive) has exactly one record and every other
\* line has none; a record holds the 1-based number of its line in its own
\* file, the base name of that file and the line without its comment, before
\* substitution; and no later step changes a record.
C19_OneRecordPerQueryLine ==
    /\ [](OneRecordPerLine /\ RecordFields)
    /\ [][RecordsKept]_vars

\* the parse has returned the record of "$T #x", line 2 after "@var T = d"
\* and before an @engine line that names bing: the query is d, the original
\* $T, the engine google
C19_Witness ==
    /\ status = "done"
    /\ \E r \in Emitted :
          LET p == FileOf(r)
          IN  /\ r.line = 2
              /\ fs[p][2] = <<"$","T"," ","#","x">>
              /\ r.query = <<"d">>
              /\ r.original = <<"$","T">>
              /\ r.engine = google
              /\ Len(fs[p]) >= 3
              /\ IsEngineLine(fs[p][3])

-----------------------------------------------------------------------------
(* C20: where a variable name ends.                                        *)

\* C20 (as claimed): the query of a record is its line with every reference
\* to a bound name replaced by the value of that very name, the name being
\* the whole run of word characters after the $: $TA stands for TA also when
\* T is bound, in every order of the table, and is left as it is when only T
\* is bound (stated for values that hold no $).
C20_NameBoundaries ==
    JustEmitted => LastRecord.query = Expand(LastRecord.original, variables)

\* the same for the lines and tables in which no bound name is a proper
\* prefix of another bound name or of a name referred to
BoundariesWithoutPrefixes ==
    JustEmitted /\ NoPrefixNames(LastRecord.original, variables)
       => LastRecord.query = Expand(LastRecord.original, variables)

====
